---- MODULE Spec2Model ----
(***************************************************************************)
(* Model of hw/misc/fx.c, the "Force eXecution" PCI device.                *)
(*                                                                         *)
(* Two contexts run concurrently:                                          *)
(*   - the worker thread (wait_device_driver, then fx_forcer_thread),      *)
(*   - the main context, which runs under the big QEMU lock: MMIO writes,  *)
(*     the two fd callbacks of the configuration server, pci_fx_uninit.    *)
(*     Handlers of the main context never overlap each other, but they     *)
(*     interleave with the worker at every shared-memory access.           *)
(*                                                                         *)
(* Representation:                                                         *)
(*   - irq_status (uint32_t bitmask) is the set of the bit positions set;  *)
(*   - an unsigned int such as conf_sleep_interval is a pair <<hi, lo>> of *)
(*     16-bit halves, value hi * 2^16 + lo, so that 32-bit wrap-around is  *)
(*     computed exactly;                                                   *)
(*   - qemu_cond_wait returns only after a qemu_cond_signal that found the *)
(*     thread waiting (a signal with no waiter is lost).                   *)
(***************************************************************************)
EXTENDS Integers, FiniteSets, Sequences, TLC

\* ------------------------------------------------------------------ bounds
MaxWrites == 2      \* start / schedule-next writes the controller issues
MaxConns == 2       \* connections the clients open in one run

\* ------------------------------------------------------- program constants
ID_REGISTER == 0
CARD_LIVENESS_REGISTER == 4
SCHEDULE_NEXT_REGISTER == 8
INTERRUPT_STATUS_REGISTER == 36
START_THREAD_REGISTER == 48
INTERRUPT_RAISE_REGISTER == 96
INTERRUPT_ACK_REGISTER == 100
CONF_INTERVAL_DEFAULT == 10
G_USEC_PER_SEC == 1000000
HALF == 65536       \* 2^16, half of the width of unsigned int

\* ------------------------------------------------------- unsigned int (32)
U32(hi, lo) == <<hi, lo>>
Hi(x) == x[1]
Lo(x) == x[2]

\* x <= y on unsigned ints
U32Leq(x, y) == Hi(x) < Hi(y) \/ (Hi(x) = Hi(y) /\ Lo(x) <= Lo(y))

\* interval * G_USEC_PER_SEC in unsigned int arithmetic (wraps mod 2^32)
MulUsecPerSec(x) ==
    LET mh == G_USEC_PER_SEC \div HALF
        ml == G_USEC_PER_SEC % HALF
        low == Lo(x) * ml
        high == (Hi(x) % HALF) * ml + Lo(x) * mh + (low \div HALF)
    IN  U32(high % HALF, low % HALF)

\* x / 10 in unsigned int arithmetic; the quotient fits a plain integer
DivTen(x) ==
    LET qh == Hi(x) \div 10
        rh == Hi(x) % 10
    IN  qh * HALF + ((rh * HALF + Lo(x)) \div 10)

\* x % m for a modulus m < 2^15
ModSmall(x, m) == ((Hi(x) % m) * (HALF % m) + Lo(x)) % m

\* the argument of g_usleep, lines 197-200
SleepUsec(interval, rnd) ==
    DivTen(MulUsecPerSec(interval)) + ModSmall(rnd, G_USEC_PER_SEC \div 100)

\* ------------------------------------------------------------ input sets
\* intervals the sleep computation is tried on, among them the neighbours of
\* 2^32 / G_USEC_PER_SEC and of 2^16, and the largest unsigned int
IntervalSamples == { U32(0, 0), U32(0, 1), U32(0, 10), U32(0, 4294), U32(0, 4295),
                     U32(0, 65535), U32(1, 0), U32(65535, 65535) }
\* values a client sends as a full 4-byte interval
PubVals == { U32(0, 5), U32(0, 7) }
\* 16 bits that the code leaves undetermined (bytes of an uninitialised
\* local) are written as a negative half: U32(-k, -k) is the k-th unknown
\* 32-bit value, any of the 2^32, and U32(-k, lo) a value of which only the
\* low half is known. A value is copied with its unknown halves, so that two
\* copies of one unknown value are equal.
Unknowns == { -1, -2, -3 }
UnknownsIn(x) == { Hi(x), Lo(x) } \cap Unknowns
\* the 32-bit value v is one of those that x stands for
Denotes(x, v) ==
    /\ Hi(x) \notin Unknowns => Hi(v) = Hi(x)
    /\ Lo(x) \notin Unknowns => Lo(v) = Lo(x)
\* what getrandom() may put in buf
RandVals == { U32(0, 9999), U32(65535, 65535) }
\* cause bits the controller writes to the interrupt-acknowledge register
AckVals == { {}, {0}, {1}, 0..31 }
\* what a client does on its connection: len bytes become readable (0: the
\* peer closed, -1: the connection failed, so that read() returns -1)
NoData == [len |-> -2, data |-> U32(0, 0)]
Payloads == { [len |-> 4, data |-> v] : v \in PubVals }
            \cup { [len |-> n, data |-> U32(43981, 52719)] : n \in {-1, 2} }
Fds == 1..MaxConns

\* read(fd, &interval, 4) returning n: the low n bytes of `interval` (the
\* host is little-endian) are overwritten, the others keep what they held
\* (a half of which one byte stays undetermined stays an unknown half)
ReadInto(old, n, data) ==
    IF n >= 4 THEN data
    ELSE IF n = 3 THEN U32(IF Hi(old) \in Unknowns THEN Hi(old)
                           ELSE (Hi(old) \div 256) * 256 + (Hi(data) % 256),
                           Lo(data))
    ELSE IF n = 2 THEN U32(Hi(old), Lo(data))
    ELSE IF n = 1 THEN U32(Hi(old),
                           IF Lo(old) \in Unknowns THEN Lo(old)
                           ELSE (Lo(old) \div 256) * 256 + (Lo(data) % 256))
    ELSE old

\* ------------------------------------------------------------ uint64_t
\* a uint64_t is the pair of its two 32-bit halves
U64(hi, lo) == <<hi, lo>>
ZeroExtend(x) == U64(U32(0, 0), x)
AllOnes64 == U64(U32(HALF - 1, HALF - 1), U32(HALF - 1, HALF - 1))     \* ~0ULL
Zero64 == ZeroExtend(U32(0, 0))

RECURSIVE Pow2(_)
Pow2(n) == IF n = 0 THEN 1 ELSE 2 * Pow2(n - 1)

RECURSIVE SumPow2(_)
SumPow2(bits) ==
    IF bits = {} THEN 0
    ELSE LET b == CHOOSE x \in bits : TRUE IN Pow2(b) + SumPow2(bits \ {b})

\* the uint32_t whose set bits are `bits`
MaskValue(bits) ==
    U32(SumPow2({ b - 16 : b \in { x \in bits : x >= 16 } }),
        SumPow2({ x \in bits : x < 16 }))

\* 0x01000edu, line 125, and 0xdeadbeef, line 339
ID_VALUE == U32(16, 237)
card_liveness == U32(57005, 48879)

\* offsets and sizes the controller is tried on
UnmappedRegs == { 12, 1020 }
WriteOnlyRegs == { SCHEDULE_NEXT_REGISTER, START_THREAD_REGISTER,
                   INTERRUPT_RAISE_REGISTER, INTERRUPT_ACK_REGISTER }
ReadRegs == { ID_REGISTER, CARD_LIVENESS_REGISTER, INTERRUPT_STATUS_REGISTER }
             \cup WriteOnlyRegs \cup UnmappedRegs
AccessSizes == { 2, 4 }
NoAccess == [op |-> "none", addr |-> 0, size |-> 0, wval |-> {}, rval |-> Zero64]

\* ------------------------------------------------------------------- state
VARIABLES
    \* FxState
    stopping,             \* bool stopping
    irq_status,           \* uint32_t irq_status, as the set of its set bits
    thr_mutex,            \* "free", "worker", "main" or "destroyed"
    thr_cond,             \* "ok" or "destroyed"
    conf_mutex,           \* "ok" or "destroyed" (held only within one step)
    conf_sleep_interval,  \* unsigned int conf_sleep_interval
    listen_fd,            \* "open" or "closed"
    conn_fd,              \* int conn_fd (0: never assigned)
    \* the PCI side
    msi,                  \* msi_enabled(&fx->pdev)
    irq_line,             \* level of the INTx line (pci_set_irq)
    msi_count,            \* msi_notify calls so far
    \* the worker thread
    wpc,                  \* where the worker is
    interval,             \* local of fx_forcer_thread
    buf,                  \* *(unsigned int *)buf
    r_old,                \* value of irq_status loaded by fx_raise_irq
    \* the main context
    mpc,                  \* "idle", or where the running handler is
    m_val,                \* val of the fx_lower_irq in progress
    m_old,                \* value of irq_status loaded by fx_lower_irq
    m_fd,                 \* descriptor whose readiness ran the read callback
    \* the sockets
    backlog,              \* connections waiting in the listen queue
    opened,               \* connections the clients have opened so far
    fd_open,              \* accepted descriptors not yet closed
    fd_reg,               \* descriptors with read_conf_server_callback set
    fd_data,              \* per descriptor, what read() would return
    \* history
    writes,               \* start / schedule-next writes so far
    start_written,        \* a start write has happened
    start_unanswered,     \* a start write found irq_status zero, and no raise since
    raises_since_write,   \* fx_raise_irq(fx, 0x1) calls since the last such write
    cycle_since_pub,      \* the worker began a cycle after the last publication
    td_pos,               \* wpc when teardown signalled the condition
    credit,               \* wake-ups register writes gave the worker, minus raises
    lost_writes,          \* start / schedule-next writes whose signal found no waiter
    mmio_log,             \* the last register read, or the last write that was ignored
    \* the sleep computation on its own (SleepSpec)
    in_a, in_b,           \* two values of interval
    in_rnd,               \* one value of *(unsigned int *)buf
    usec_a, usec_b        \* the g_usleep argument for each (-1: not computed)

vars == << stopping, irq_status, thr_mutex, thr_cond, conf_mutex,
           conf_sleep_interval, listen_fd, conn_fd, msi, irq_line, msi_count,
           wpc, interval, buf, r_old, mpc, m_val, m_old, m_fd,
           backlog, opened, fd_open, fd_reg, fd_data,
           writes, start_written, start_unanswered, raises_since_write,
           cycle_since_pub, td_pos, credit, lost_writes, mmio_log,
           in_a, in_b, in_rnd, usec_a, usec_b >>

devVars == << stopping, irq_status, thr_mutex, thr_cond, conf_mutex,
              conf_sleep_interval, listen_fd, conn_fd >>
pciVars == << msi, irq_line, msi_count >>
workerVars == << wpc, interval, buf, r_old >>
mainVars == << mpc, m_val, m_old, m_fd >>
sockVars == << backlog, opened, fd_open, fd_reg, fd_data >>
histVars == << writes, start_written, start_unanswered, raises_since_write,
              cycle_since_pub, td_pos, credit, lost_writes, mmio_log >>
sleepVars == << in_a, in_b, in_rnd, usec_a, usec_b >>

\* the state after fx_instance_init and pci_fx_realize
DeviceInit ==
    /\ stopping = FALSE
    /\ irq_status = {}
    /\ thr_mutex = "free"
    /\ thr_cond = "ok"
    /\ conf_mutex = "ok"
    /\ conf_sleep_interval = U32(0, CONF_INTERVAL_DEFAULT)
    /\ listen_fd = "open"
    /\ conn_fd = 0
    /\ msi \in BOOLEAN
    /\ irq_line = 0
    /\ msi_count = 0
    /\ wpc = "wdd_lock"
    /\ interval = U32(0, 0)
    /\ buf = U32(0, 0)
    /\ r_old = {}
    /\ mpc = "idle"
    /\ m_val = {}
    /\ m_old = {}
    /\ m_fd = 0
    /\ backlog = 0
    /\ opened = 0
    /\ fd_open = {}
    /\ fd_reg = {}
    /\ fd_data = [f \in Fds |-> NoData]
    /\ writes = 0
    /\ start_written = FALSE
    /\ start_unanswered = FALSE
    /\ raises_since_write = 0
    /\ cycle_since_pub = TRUE
    /\ td_pos = "none"
    /\ credit = 0
    /\ lost_writes = 0
    /\ mmio_log = NoAccess

Init ==
    /\ DeviceInit
    /\ in_a = U32(0, 0)
    /\ in_b = U32(0, 0)
    /\ in_rnd = U32(0, 0)
    /\ usec_a = -1
    /\ usec_b = -1

\* ------------------------------------------------------ condition variable
\* mutant of CondSignal: a signal sent before the worker reaches its
\* armed-wait is remembered, and the worker does not block there
CondSignalSticky(pc) ==
    IF pc \in { "wdd_lock", "wdd_waiting" } THEN "wdd_woken"
    ELSE IF pc = "waiting" THEN "woken"
    ELSE pc

\* qemu_cond_signal(&fx->thr_cond): the worker, if it is blocked in
\* qemu_cond_wait, is made runnable; otherwise nothing is recorded
CondSignal(pc) ==
    IF pc = "wdd_waiting" THEN "wdd_woken"
    ELSE IF pc = "waiting" THEN "woken"
    ELSE pc

\* mutant of qemu_cond_wait: the wait returns without having been signalled
qemu_cond_wait_noblock(pc) == IF pc = "wdd_wait" THEN "wdd_woken" ELSE "woken"

\* qemu_cond_wait(&fx->thr_cond, &fx->thr_mutex) entered at pc: the mutex is
\* released and the thread blocks until it is signalled
qemu_cond_wait(pc) == IF pc = "wdd_wait" THEN "wdd_waiting" ELSE "waiting"

\* ------------------------------------------------------------ the worker
\* wait_device_driver, lines 174-177
wait_device_driver ==
    \/ /\ wpc = "wdd_lock"                  \* qemu_mutex_lock
       /\ thr_mutex = "free"
       /\ thr_mutex' = "worker"
       /\ wpc' = "wdd_wait"
       /\ UNCHANGED << interval, buf, r_old, cycle_since_pub >>
    \/ /\ wpc = "wdd_wait"                  \* qemu_cond_wait: unlock and block
       /\ thr_mutex' = "free"
       /\ wpc' = qemu_cond_wait(wpc)
       /\ UNCHANGED << interval, buf, r_old, cycle_since_pub >>
    \/ /\ wpc = "wdd_woken"                 \* relock, qemu_mutex_unlock, call
       /\ thr_mutex = "free"
       /\ wpc' = "rand"
       /\ cycle_since_pub' = TRUE
       /\ UNCHANGED << thr_mutex, interval, buf, r_old >>

\* mutant of fx_raise_irq: it notifies only when the mask was zero before
fx_raise_irq_edge(val) ==
    \/ /\ wpc = "raise_load"
       /\ r_old' = irq_status
       /\ wpc' = "raise_store"
       /\ UNCHANGED << irq_status, pciVars, raises_since_write, credit, lost_writes, start_unanswered >>
    \/ /\ wpc = "raise_store"
       /\ irq_status' = r_old \cup val
       /\ wpc' = "raise_test"
       /\ raises_since_write' = raises_since_write + 1
       /\ start_unanswered' = FALSE
       /\ credit' = credit - 1
       /\ UNCHANGED lost_writes
       /\ UNCHANGED << r_old, pciVars >>
    \/ /\ wpc = "raise_test"
       /\ \E seen \in { irq_status, r_old \cup val } :
             wpc' = IF seen # {} THEN "raise_sig" ELSE "wait"
       /\ UNCHANGED << irq_status, r_old, pciVars, raises_since_write, credit, lost_writes, start_unanswered >>
    \/ /\ wpc = "raise_sig"
       /\ IF msi
          THEN /\ msi_count' = IF r_old = {} THEN msi_count + 1 ELSE msi_count
               /\ UNCHANGED irq_line
          ELSE irq_line' = 1 /\ UNCHANGED msi_count
       /\ wpc' = "wait"
       /\ UNCHANGED << irq_status, r_old, msi, raises_since_write, credit, lost_writes, start_unanswered >>

\* fx_raise_irq(fx, val) as the worker runs it, lines 95-102. The statement
\* irq_status |= val is a load and a store; the test that follows either
\* loads irq_status again or uses the value just stored.
fx_raise_irq(val) ==
    \/ /\ wpc = "raise_load"
       /\ r_old' = irq_status
       /\ wpc' = "raise_store"
       /\ UNCHANGED << irq_status, pciVars, raises_since_write, credit, lost_writes, start_unanswered >>
    \/ /\ wpc = "raise_store"
       /\ irq_status' = r_old \cup val
       /\ wpc' = "raise_test"
       /\ raises_since_write' = raises_since_write + 1
       /\ start_unanswered' = FALSE
       /\ credit' = credit - 1
       /\ UNCHANGED lost_writes
       /\ UNCHANGED << r_old, pciVars >>
    \/ /\ wpc = "raise_test"
       /\ \E seen \in { irq_status, r_old \cup val } :
             wpc' = IF seen # {} THEN "raise_sig" ELSE "wait"
       /\ UNCHANGED << irq_status, r_old, pciVars, raises_since_write, credit, lost_writes, start_unanswered >>
    \/ /\ wpc = "raise_sig"
       /\ IF msi
          THEN msi_count' = msi_count + 1 /\ UNCHANGED irq_line   \* msi_notify
          ELSE irq_line' = 1 /\ UNCHANGED msi_count               \* pci_set_irq
       /\ wpc' = "wait"
       /\ UNCHANGED << irq_status, r_old, msi, raises_since_write, credit, lost_writes, start_unanswered >>

\* mutant of AfterWait: the stop flag is not looked at
AfterWaitIgnoreStop(stop) == "rand"

\* mutant of AfterWait: the loop goes on with the interval it read before
AfterWaitKeepInterval(stop) == IF stop THEN "done" ELSE "sleep"

\* what the worker does after qemu_cond_wait returned, lines 207-212
AfterWait(stop) == IF stop THEN "done" ELSE "rand"

\* fx_forcer_thread, lines 188-214, except the call of fx_raise_irq
fx_forcer_thread ==
    \/ /\ wpc = "rand"                      \* getrandom
       /\ buf' \in RandVals
       /\ wpc' = "conf"
       /\ UNCHANGED << interval, thr_mutex, cycle_since_pub >>
    \/ /\ wpc = "conf"                      \* read the interval under conf_mutex
       /\ interval' = conf_sleep_interval
       /\ UNCHANGED cycle_since_pub
       /\ wpc' = "sleep"
       /\ UNCHANGED << buf, thr_mutex >>
    \/ /\ wpc = "sleep"                     \* g_usleep(SleepUsec(interval, buf))
       /\ wpc' = "lock"
       /\ UNCHANGED << interval, buf, thr_mutex, cycle_since_pub >>
    \/ /\ wpc = "lock"                      \* qemu_mutex_lock
       /\ thr_mutex = "free"
       /\ thr_mutex' = "worker"
       /\ wpc' = "raise_load"
       /\ UNCHANGED << interval, buf, cycle_since_pub >>
    \/ /\ wpc = "wait"                      \* qemu_cond_wait: unlock and block
       /\ thr_mutex' = "free"
       /\ wpc' = qemu_cond_wait(wpc)
       /\ UNCHANGED << interval, buf, cycle_since_pub >>
    \/ /\ wpc = "woken"                     \* relock, test stopping, unlock
       /\ thr_mutex = "free"
       /\ wpc' = AfterWait(stopping)
       /\ cycle_since_pub' = (cycle_since_pub \/ ~stopping)
       /\ UNCHANGED << interval, buf, thr_mutex >>

Worker ==
    \/ /\ wait_device_driver
       /\ UNCHANGED << sleepVars, stopping, irq_status, thr_cond, conf_mutex,
                       conf_sleep_interval, listen_fd, conn_fd,
                       pciVars, mainVars, sockVars,
                       writes, start_written, mmio_log, raises_since_write, credit, lost_writes, start_unanswered, td_pos >>
    \/ /\ fx_forcer_thread
       /\ UNCHANGED << sleepVars, stopping, irq_status, thr_cond, conf_mutex,
                       conf_sleep_interval, listen_fd, conn_fd, r_old,
                       pciVars, mainVars, sockVars,
                       writes, start_written, mmio_log, raises_since_write, credit, lost_writes, start_unanswered, td_pos >>
    \/ /\ fx_raise_irq({0})
       /\ UNCHANGED << sleepVars, stopping, thr_mutex, thr_cond, conf_mutex,
                       conf_sleep_interval, listen_fd, conn_fd, interval, buf,
                       mainVars, sockVars,
                       writes, start_written, mmio_log, cycle_since_pub, td_pos >>

\* ------------------------------------------------------ the main context
\* fx_lower_irq(fx, val), lines 107-111, after its load of irq_status (which
\* fx_mmio_write does on entry): the store, the test and pci_set_irq
fx_lower_irq ==
    \/ /\ mpc = "lower_store"
       /\ irq_status' = m_old \ m_val
       /\ mpc' = "lower_test"
       /\ UNCHANGED << m_val, m_old, irq_line >>
    \/ /\ mpc = "lower_test"
       /\ \E seen \in { irq_status, m_old \ m_val } :
             IF seen = {} /\ ~msi
             THEN mpc' = "lower_set" /\ UNCHANGED << m_val, m_old >>
             ELSE mpc' = "idle" /\ m_val' = {} /\ m_old' = {}
       /\ UNCHANGED << irq_status, irq_line >>
    \/ /\ mpc = "lower_set"
       /\ irq_line' = 0
       /\ mpc' = "idle"
       /\ m_val' = {}
       /\ m_old' = {}
       /\ UNCHANGED irq_status

\* mutant of fx_mmio_read: val starts as zero instead of ~0ULL
fx_mmio_read_zero(addr, size) ==
    IF size # 4 THEN Zero64
    ELSE IF addr = ID_REGISTER THEN ZeroExtend(ID_VALUE)
    ELSE IF addr = CARD_LIVENESS_REGISTER THEN ZeroExtend(card_liveness)
    ELSE IF addr = INTERRUPT_STATUS_REGISTER THEN ZeroExtend(MaskValue(irq_status))
    ELSE Zero64

\* fx_mmio_read(opaque, addr, size), lines 117-138: its return value
fx_mmio_read(addr, size) ==
    IF size # 4 THEN AllOnes64
    ELSE IF addr = ID_REGISTER THEN ZeroExtend(ID_VALUE)
    ELSE IF addr = CARD_LIVENESS_REGISTER THEN ZeroExtend(card_liveness)
    ELSE IF addr = INTERRUPT_STATUS_REGISTER THEN ZeroExtend(MaskValue(irq_status))
    ELSE AllOnes64

RendezvousRegs == { START_THREAD_REGISTER, SCHEDULE_NEXT_REGISTER }
WrittenRegs == RendezvousRegs \cup { INTERRUPT_ACK_REGISTER }

\* mmio_log after a write of val to addr: it keeps the writes to the offsets
\* that have no write semantics
LogWrite(addr, val) ==
    IF addr \in WrittenRegs THEN mmio_log
    ELSE [op |-> "write", addr |-> addr, size |-> 4, wval |-> val, rval |-> Zero64]

\* mutant of WriteCase: the break of line 162 is missing, so that a write to
\* the interrupt-raise register falls through to the acknowledge case
WriteCaseFallThrough(addr) ==
    IF addr \in { START_THREAD_REGISTER, SCHEDULE_NEXT_REGISTER } THEN "signal"
    ELSE IF addr \in { INTERRUPT_RAISE_REGISTER, INTERRUPT_ACK_REGISTER } THEN "lower"
    ELSE "none"

\* mutant of WriteCase: an offset outside the register set signals the worker
WriteCaseDefaultSignals(addr) ==
    IF addr = INTERRUPT_ACK_REGISTER THEN "lower"
    ELSE IF addr = INTERRUPT_RAISE_REGISTER THEN "none"
    ELSE "signal"

\* the switch of fx_mmio_write, lines 149-168
WriteCase(addr) ==
    IF addr \in { START_THREAD_REGISTER, SCHEDULE_NEXT_REGISTER } THEN "signal"
    ELSE IF addr = INTERRUPT_ACK_REGISTER THEN "lower"
    ELSE "none"                            \* INTERRUPT_RAISE_REGISTER, default

\* fx_mmio_write(opaque, addr, val, size) for a 4-byte access, lines 149-168
fx_mmio_write(addr, val) ==
    /\ mpc = "idle"
    /\ \/ /\ WriteCase(addr) = "signal"
          /\ writes < MaxWrites
          /\ thr_mutex = "free"             \* lock, signal, unlock
          /\ wpc' = CondSignal(wpc)
          /\ writes' = writes + 1
          /\ start_written' = (start_written \/ addr = START_THREAD_REGISTER)
          /\ raises_since_write' = 0
          /\ credit' = IF CondSignal(wpc) # wpc THEN credit + 1 ELSE credit
          /\ lost_writes' = IF CondSignal(wpc) = wpc THEN lost_writes + 1 ELSE lost_writes
          /\ start_unanswered' =
                (start_unanswered \/ (addr = START_THREAD_REGISTER /\ irq_status = {}))
          /\ mmio_log' = LogWrite(addr, val)
          /\ UNCHANGED << mainVars, irq_status >>
       \/ /\ WriteCase(addr) = "lower"      \* fx_lower_irq: load irq_status
          /\ m_val' = val
          /\ m_old' = irq_status
          /\ mpc' = "lower_store"
          /\ mmio_log' = LogWrite(addr, val)
          /\ UNCHANGED << wpc, writes, start_written, raises_since_write,
                          credit, lost_writes, start_unanswered, irq_status, m_fd >>
       \/ /\ WriteCase(addr) = "none"       \* break
          /\ mmio_log' = LogWrite(addr, val)
          /\ UNCHANGED << wpc, writes, start_written, raises_since_write, credit, lost_writes,
                          start_unanswered, irq_status, mainVars >>

\* mutant of qemu_thread_join: teardown goes on without waiting for the worker
qemu_thread_join_nowait(pc) == TRUE

\* qemu_thread_join(&fx->thread), line 326: returns once the worker has returned
qemu_thread_join(pc) == pc = "done"

\* the device is realized: pci_fx_uninit has not destroyed its primitives
Realized == thr_mutex # "destroyed"

\* pci_fx_uninit, lines 322-329
pci_fx_uninit ==
    \/ /\ mpc = "idle"                      \* lock, stopping = true, unlock
       /\ thr_mutex = "free"
       /\ stopping' = TRUE
       /\ mpc' = "un_signal"
       /\ UNCHANGED << wpc, thr_mutex, thr_cond, td_pos >>
    \/ /\ mpc = "un_signal"                 \* qemu_cond_signal
       /\ wpc' = CondSignal(wpc)
       /\ td_pos' = wpc
       /\ mpc' = "un_join"
       /\ UNCHANGED << stopping, thr_mutex, thr_cond >>
    \/ /\ mpc = "un_join"                   \* qemu_thread_join
       /\ qemu_thread_join(wpc)
       /\ mpc' = "un_destroy"
       /\ UNCHANGED << stopping, wpc, thr_mutex, thr_cond, td_pos >>
    \/ /\ mpc = "un_destroy"                \* qemu_cond_destroy, qemu_mutex_destroy
       /\ thr_cond' = "destroyed"
       /\ thr_mutex' = "destroyed"
       /\ mpc' = "un_conf"
       /\ UNCHANGED << stopping, wpc, td_pos >>

\* conf_server_uninit, lines 255-256, called by pci_fx_uninit
conf_server_uninit ==
    /\ mpc = "un_conf"
    /\ conf_mutex' = "destroyed"
    /\ listen_fd' = "closed"
    /\ mpc' = "un_msi"

\* msi_uninit(pdev), line 333, the last statement of pci_fx_uninit: the MSI
\* capability is removed, msi_enabled() is false from then on, and
\* pci_fx_uninit returns to the main loop
msi_uninit ==
    /\ mpc = "un_msi"
    /\ msi' = FALSE
    /\ mpc' = "idle"

\* ---------------------------------------------- the configuration channel
\* accept() gives the lowest descriptor that is not open
LowestFree(open) == CHOOSE f \in Fds \ open : \A g \in Fds \ open : f <= g

\* accept_conf_server_callback, lines 263-271: runs when listen_fd is readable
accept_conf_server_callback ==
    /\ mpc = "idle"
    /\ listen_fd = "open"
    /\ backlog > 0
    /\ Fds \ fd_open # {}
    /\ LET fd == LowestFree(fd_open)
       IN  /\ conn_fd' = fd
           /\ fd_open' = fd_open \cup {fd}
           /\ fd_reg' = fd_reg \cup {fd}
    /\ backlog' = backlog - 1
    /\ UNCHANGED << opened, fd_data >>

\* what read(fx->conn_fd, ...) returns: -1 on a descriptor that is not open
ReadLen == IF conn_fd \in fd_open THEN fd_data[conn_fd].len ELSE -1

\* the value line 284 stores, when the local held g before the read
Published(g) ==
    IF conn_fd \in fd_open
    THEN ReadInto(g, fd_data[conn_fd].len, fd_data[conn_fd].data)
    ELSE g

\* an unknown that neither conf_sleep_interval nor the worker's interval holds
FreshUnknown ==
    LET free == Unknowns \ (UnknownsIn(conf_sleep_interval) \cup UnknownsIn(interval))
    IN  CHOOSE t \in free : \A u \in free : t >= u

\* what the uninitialised local `interval` (line 277) holds when the callback
\* is entered: whatever the stack slot held, any 32-bit value (the interval in
\* force, with which a failed read publishes no change, is one of them)
GarbageVals == { U32(FreshUnknown, FreshUnknown) }

\* qemu_mutex_lock(&fx->conf_mutex), line 283: on a mutex that has been
\* destroyed the behaviour is undefined, the call may return as if it had
\* locked or end the process (or never return)
LockConfOutcomes == IF conf_mutex = "destroyed" THEN { "locked", "dead" } ELSE { "locked" }

\* read_conf_server_callback, lines 280-291: runs when a descriptor it is
\* registered for is readable; read() blocks while fx->conn_fd has no data
read_conf_server_callback ==
    \/ /\ mpc = "idle"
       /\ \E f \in fd_reg \cap fd_open :
             /\ fd_data[f] # NoData
             /\ m_fd' = f
       /\ mpc' = "reading"
       /\ UNCHANGED << conf_sleep_interval, cycle_since_pub, sockVars >>
    \/ /\ mpc = "reading"                   \* read, lock, store, unlock: 281-285
       /\ conn_fd \in fd_open => fd_data[conn_fd] # NoData
       /\ \E out \in LockConfOutcomes :
             IF out = "locked"
             THEN /\ \E g \in GarbageVals : conf_sleep_interval' = Published(g)
                  /\ cycle_since_pub' = FALSE
                  /\ mpc' = "closing"
             ELSE /\ mpc' = "dead"
                  /\ UNCHANGED << conf_sleep_interval, cycle_since_pub >>
       /\ UNCHANGED << m_fd, sockVars >>
    \/ /\ mpc = "closing"                   \* lines 290-291
       /\ fd_reg' = fd_reg \ {conn_fd}      \* qemu_set_fd_handler(conn_fd, NULL..)
       /\ fd_open' = fd_open \ {conn_fd}    \* close(conn_fd)
       /\ fd_data' = [f \in Fds |-> IF f = conn_fd THEN NoData ELSE fd_data[f]]
       /\ m_fd' = 0
       /\ mpc' = "idle"
       /\ UNCHANGED << backlog, opened, conf_sleep_interval, cycle_since_pub >>

\* a client connects to the listening port
ClientConnect ==
    /\ listen_fd = "open"
    /\ opened < MaxConns
    /\ opened' = opened + 1
    /\ backlog' = backlog + 1
    /\ UNCHANGED << fd_open, fd_reg, fd_data >>

\* the client of an accepted connection sends its bytes, closes or fails
ClientSend ==
    /\ \E f \in fd_open, p \in Payloads :
          /\ fd_data[f] = NoData
          /\ fd_data' = [fd_data EXCEPT ![f] = p]
    /\ UNCHANGED << backlog, opened, fd_open, fd_reg >>

\* the values tried for a write to addr: only fx_lower_irq looks at val
WriteVals(addr) == IF addr = INTERRUPT_ACK_REGISTER THEN AckVals ELSE { {0} }

\* a 4-byte write of the controller to one of the registers
Controller(addrs) ==
    /\ Realized
    /\ \E addr \in addrs : \E val \in WriteVals(addr) : fx_mmio_write(addr, val)
    /\ UNCHANGED << sleepVars, stopping, thr_mutex, thr_cond, conf_mutex,
                    conf_sleep_interval, listen_fd, conn_fd, pciVars,
                    interval, buf, r_old, sockVars, cycle_since_pub, td_pos >>

\* a read of the controller from one of the registers
Read ==
    /\ mpc = "idle"
    /\ Realized
    /\ \E addr \in ReadRegs, size \in AccessSizes :
          mmio_log' = [op |-> "read", addr |-> addr, size |-> size,
                       wval |-> {}, rval |-> fx_mmio_read(addr, size)]
    /\ UNCHANGED << sleepVars, devVars, pciVars, workerVars, mainVars, sockVars,
                    writes, start_written, start_unanswered, raises_since_write,
                    cycle_since_pub, td_pos, credit, lost_writes >>

\* the rest of an interrupt-acknowledge write
Lower ==
    /\ fx_lower_irq
    /\ UNCHANGED << sleepVars, stopping, thr_mutex, thr_cond, conf_mutex,
                    conf_sleep_interval, listen_fd, conn_fd, msi, msi_count,
                    workerVars, m_fd, sockVars, histVars >>

Teardown ==
    \/ /\ pci_fx_uninit
       /\ UNCHANGED << sleepVars, irq_status, conf_mutex, conf_sleep_interval, listen_fd,
                       conn_fd, pciVars, interval, buf, r_old,
                       m_val, m_old, m_fd, sockVars,
                       writes, start_written, mmio_log, raises_since_write, credit, lost_writes, start_unanswered, cycle_since_pub >>
    \/ /\ conf_server_uninit
       /\ UNCHANGED << sleepVars, stopping, irq_status, thr_mutex, thr_cond,
                       conf_sleep_interval, conn_fd, pciVars, workerVars,
                       m_val, m_old, m_fd, sockVars, histVars >>
    \/ /\ msi_uninit
       /\ UNCHANGED << sleepVars, devVars, irq_line, msi_count, workerVars,
                       m_val, m_old, m_fd, sockVars, histVars >>

\* the fd handlers the main loop runs
Reactor ==
    \/ /\ accept_conf_server_callback
       /\ UNCHANGED << sleepVars, stopping, irq_status, thr_mutex, thr_cond, conf_mutex,
                       conf_sleep_interval, listen_fd, pciVars, workerVars,
                       mainVars, histVars >>
    \/ /\ read_conf_server_callback
       /\ UNCHANGED << sleepVars, stopping, irq_status, thr_mutex, thr_cond, conf_mutex,
                       listen_fd, conn_fd, pciVars, workerVars, m_val, m_old,
                       writes, start_written, mmio_log, raises_since_write, credit, lost_writes, start_unanswered, td_pos >>

Clients ==
    /\ ClientConnect \/ ClientSend
    /\ UNCHANGED << sleepVars, devVars, pciVars, workerVars, mainVars, histVars >>

IgnoredRegs == { INTERRUPT_RAISE_REGISTER } \cup UnmappedRegs

\* the whole device
Next == Worker \/ Controller(WrittenRegs \cup IgnoredRegs) \/ Read \/ Lower
        \/ Teardown \/ Reactor \/ Clients
Spec == Init /\ [][Next]_vars

\* the device while no client connects to the configuration port
IrqNext == Worker \/ Controller(WrittenRegs) \/ Lower \/ Teardown
IrqSpec == Init /\ [][IrqNext]_vars

\* the same with the register reads and the writes that fx_mmio_write ignores
RegNext == Worker \/ Controller(WrittenRegs \cup IgnoredRegs) \/ Read \/ Lower
           \/ Teardown
RegSpec == Init /\ [][RegNext]_vars

\* the device with INTx signalling while the controller writes only the start
\* register (a schedule-next write runs the same code)
ConfInit == Init /\ ~msi
ConfNext == Worker \/ Controller({ START_THREAD_REGISTER }) \/ Teardown \/ Reactor
            \/ Clients
ConfSpec == ConfInit /\ [][ConfNext]_vars

\* the worker is a thread of its own: the scheduler runs it whenever it can
\* take a step
FairIrqSpec == IrqSpec /\ WF_vars(Worker)

\* the sleep computation of lines 197-200 applied to two intervals and one
\* random value
SleepInit ==
    /\ DeviceInit
    /\ in_a \in IntervalSamples
    /\ in_b \in IntervalSamples
    /\ in_rnd \in RandVals
    /\ usec_a = -1
    /\ usec_b = -1

g_usleep_a ==
    /\ usec_a = -1
    /\ usec_a' = SleepUsec(in_a, in_rnd)
    /\ UNCHANGED << devVars, pciVars, workerVars, mainVars, sockVars, histVars,
                    in_a, in_b, in_rnd, usec_b >>

g_usleep_b ==
    /\ usec_b = -1
    /\ usec_b' = SleepUsec(in_b, in_rnd)
    /\ UNCHANGED << devVars, pciVars, workerVars, mainVars, sockVars, histVars,
                    in_a, in_b, in_rnd, usec_a >>

SleepNext == g_usleep_a \/ g_usleep_b
SleepSpec == SleepInit /\ [][SleepNext]_vars

\* ================================================================ claims
RaiseSteps == { "raise_load", "raise_store", "raise_test", "raise_sig" }
LowerSteps == { "lower_store", "lower_test", "lower_set" }

\* C1: once teardown has set the stop flag and signalled the condition, the
\* worker eventually terminates (so that qemu_thread_join returns), wherever
\* it was when teardown began.
C1_StopLeadsToExit == (td_pos # "none") ~> (wpc = "done")

\* C2: between two consecutive fx_raise_irq(fx, 0x1) of the worker there is a
\* controller write to the start or the schedule-next register: no second
\* raise since the last such write.
C2_OneRaisePerWrite == raises_since_write <= 1

\* a second raise has happened, after a write that followed the first
C2_Witness == msi /\ msi_count >= 2 /\ raises_since_write = 1 /\ wpc = "waiting"

\* C3: when read() fails or returns fewer than 4 bytes, the read callback
\* leaves conf_sleep_interval as it was, deregisters and closes the
\* connection, and the listener still accepts.
C3_ShortReadKeepsInterval ==
    [][ /\ (mpc = "reading" /\ mpc' = "closing" /\ ReadLen < 4 /\ Realized)
            => (conf_sleep_interval' = conf_sleep_interval /\ listen_fd' = "open")
        /\ (mpc = "closing" /\ mpc' = "idle")
            => (conn_fd \notin fd_open' /\ conn_fd \notin fd_reg') ]_vars

\* C4 as stated: with MSI, a raise notifies exactly when it takes the mask
\* from zero to non-zero; a raise that finds the mask already non-zero emits
\* no notification.
C4_NotifyOnRisingEdgeOnly ==
    [][ (msi /\ wpc = "raise_sig" /\ wpc' = "wait")
        => msi_count' = msi_count + (IF r_old = {} THEN 1 ELSE 0) ]_vars

\* C4 amended: with MSI, msi_notify is called exactly once by every
\* fx_raise_irq whose test finds the mask non-zero, whether the mask was zero
\* or already non-zero before that raise, and by nothing else.
C4_NotifyPerRaise ==
    [][ msi =>
         /\ (wpc = "raise_sig" /\ wpc' = "wait") => msi_count' = msi_count + 1
         /\ msi_count' # msi_count
               => (wpc = "raise_sig" /\ wpc' = "wait" /\ msi_count' = msi_count + 1)
      ]_vars

\* a raise that found the mask already non-zero has notified again
C4_Witness == msi /\ wpc = "wait" /\ r_old # {} /\ irq_status # {} /\ msi_count >= 2

\* C5: with INTx signalling, whenever no raise and no lower is in progress,
\* the line is asserted if and only if irq_status is non-zero.
C5_LineIffStatus ==
    (~msi /\ wpc \notin RaiseSteps /\ mpc \notin LowerSteps)
        => ((irq_line = 1) <=> (irq_status # {}))

\* C6: once the worker has begun a cycle after the last publication, the
\* interval its sleep is computed from is the published one.
C6_SleepUsesPublished ==
    (wpc = "sleep" /\ cycle_since_pub) => interval = conf_sleep_interval

\* the worker is about to sleep on a value a client sent
C6_Witness ==
    /\ wpc = "sleep" /\ cycle_since_pub
    /\ interval \in PubVals
    /\ interval = conf_sleep_interval

\* C7: a start write is always eventually followed by a non-zero interrupt
\* status (as long as the device is not torn down), also when the write
\* comes before the worker has reached its armed-wait: a start write that
\* found the status zero is followed by a raise.
C7_StartLeadsToIrq == start_unanswered ~> (~start_unanswered \/ stopping)

\* C8: when teardown signals the condition while the worker is blocked in
\* its post-raise wait, the worker terminates, with no further sleep and no
\* further raise.
C8_StopInPostRaiseWait ==
    /\ (td_pos = "waiting") ~> (wpc = "done")
    /\ [][ td_pos = "waiting" => wpc' \in { "woken", "done" } ]_vars

\* the worker has terminated after such a teardown
C8_Witness == td_pos = "waiting" /\ wpc = "done" /\ mpc = "idle" /\ ~Realized

\* C9: no accept is performed while a connection is accepted and not yet
\* closed: conn_fd is never overwritten while it names an open, registered
\* connection.
C9_OneConnection ==
    [][ (mpc = "idle" /\ backlog' < backlog)
        => ~(conn_fd \in fd_open /\ conn_fd \in fd_reg) ]_vars

\* interval * 100000 >= u, computed without leaving 31 bits
BaseGeq(i, u) == Hi(i) > 0 \/ Lo(i) > 21474 \/ Lo(i) * (G_USEC_PER_SEC \div 10) >= u

\* C10: with the same random value, the sleep is monotonic non-decreasing
\* in the interval, and it is at most interval tenths of a second plus the
\* largest jitter, which is less than a hundredth of a second.
C10_SleepMonotoneBounded ==
    (usec_a >= 0 /\ usec_b >= 0) =>
        /\ U32Leq(in_a, in_b) => usec_a <= usec_b
        /\ BaseGeq(in_a, usec_a - (G_USEC_PER_SEC \div 100 - 1))

\* a register access has just been logged
Logged(op, regs) ==
    /\ mmio_log' # mmio_log
    /\ mmio_log'.op = op
    /\ mmio_log'.addr \in regs

\* C11 as stated: a 4-byte read of the schedule-next, start, interrupt-raise
\* or interrupt-acknowledge register returns zero; the identification,
\* liveness and interrupt-status registers return the identity constant, the
\* sentinel and the current mask.
C11_WriteOnlyRegsReadZero ==
    [][ (Logged("read", ReadRegs) /\ mmio_log'.size = 4) =>
          /\ mmio_log'.addr \in WriteOnlyRegs => mmio_log'.rval = Zero64
          /\ mmio_log'.addr = ID_REGISTER => mmio_log'.rval = ZeroExtend(ID_VALUE)
          /\ mmio_log'.addr = CARD_LIVENESS_REGISTER
                => mmio_log'.rval = ZeroExtend(card_liveness)
          /\ mmio_log'.addr = INTERRUPT_STATUS_REGISTER
                => mmio_log'.rval = ZeroExtend(MaskValue(irq_status)) ]_vars

\* C11 amended: a 4-byte read of the schedule-next, start, interrupt-raise or
\* interrupt-acknowledge register returns all-ones in every device state;
\* the other three registers read as stated.
C11_WriteOnlyRegsReadAllOnes ==
    [][ (Logged("read", ReadRegs) /\ mmio_log'.size = 4) =>
          /\ mmio_log'.addr \in WriteOnlyRegs => mmio_log'.rval = AllOnes64
          /\ mmio_log'.addr = ID_REGISTER => mmio_log'.rval = ZeroExtend(ID_VALUE)
          /\ mmio_log'.addr = CARD_LIVENESS_REGISTER
                => mmio_log'.rval = ZeroExtend(card_liveness)
          /\ mmio_log'.addr = INTERRUPT_STATUS_REGISTER
                => mmio_log'.rval = ZeroExtend(MaskValue(irq_status)) ]_vars

\* the acknowledge register has been read while an interrupt was pending
C11_Witness ==
    /\ mmio_log.op = "read" /\ mmio_log.size = 4
    /\ mmio_log.addr = INTERRUPT_ACK_REGISTER
    /\ mmio_log.rval = AllOnes64
    /\ irq_status # {}

\* C12: a read of an offset outside the register set returns all-ones
\* whatever came before, and a write to such an offset changes no device
\* state and signals nothing.
C12_UnmappedOffsets ==
    [][ /\ (Logged("read", UnmappedRegs) /\ mmio_log'.size = 4)
            => mmio_log'.rval = AllOnes64
        /\ Logged("write", UnmappedRegs)
            => UNCHANGED << devVars, pciVars, workerVars, mainVars, sockVars >>
      ]_vars

\* an unmapped offset has been written while the worker was blocked after a
\* raise
C12_Witness ==
    /\ mmio_log.op = "write" /\ mmio_log.addr \in UnmappedRegs
    /\ irq_status # {} /\ wpc = "waiting" /\ mpc = "idle"

\* C13: an acknowledge write issued while irq_status is zero leaves
\* irq_status zero, emits no notification, leaves the line as it is and does
\* not wake the worker: each of its steps changes none of them.
C13_AckWithNothingPending ==
    [][ (mpc \in LowerSteps /\ mpc' # mpc /\ m_old = {}) =>
          /\ irq_status' = irq_status
          /\ irq_line' = irq_line
          /\ msi_count' = msi_count
          /\ wpc' = wpc ]_vars

\* C14: a write to the interrupt-raise register changes nothing of the
\* device, and only the worker's fx_raise_irq ever sets a bit of irq_status.
C14_RaiseRegisterIgnored ==
    [][ /\ Logged("write", { INTERRUPT_RAISE_REGISTER })
            => UNCHANGED << devVars, pciVars, workerVars, mainVars, sockVars >>
        /\ ~(irq_status' \subseteq irq_status) => wpc = "raise_store"
      ]_vars

\* the raise register has been written and nothing is pending
C14_Witness ==
    /\ mmio_log.op = "write" /\ mmio_log.addr = INTERRUPT_RAISE_REGISTER
    /\ mmio_log.wval = {0}
    /\ irq_status = {} /\ start_written /\ wpc = "sleep"

\* C15: irq_status is changed only by a context that holds thr_mutex: the
\* worker in fx_raise_irq, the main context in fx_lower_irq.
C15_MaskChangedUnderMutex ==
    [][ irq_status' # irq_status =>
          IF mpc' # mpc THEN thr_mutex = "main" ELSE thr_mutex = "worker" ]_vars

\* C16: as long as no start write has happened, the worker is in its
\* armed-wait (or on its way to it), and irq_status is zero.
C16_ArmedUntilStart ==
    ~start_written => (wpc \in { "wdd_lock", "wdd_wait", "wdd_waiting" } /\ irq_status = {})

\* C17: thr_cond, thr_mutex and conf_mutex are destroyed only after the
\* worker has terminated, conf_mutex after the other two, and the stop flag
\* is set before the teardown signal is sent.
C17_DestroyAfterJoin ==
    /\ (thr_cond = "destroyed" \/ thr_mutex = "destroyed" \/ conf_mutex = "destroyed")
          => wpc = "done"
    /\ conf_mutex = "destroyed" => (thr_cond = "destroyed" /\ thr_mutex = "destroyed")
    /\ td_pos # "none" => stopping

\* teardown has run to its end
C17_Witness ==
    /\ conf_mutex = "destroyed" /\ thr_mutex = "destroyed" /\ wpc = "done"
    /\ mpc = "idle"

\* C18: fx_raise_irq is never executed while stopping is true.
C18_NoRaiseAfterStop ==
    [][ (wpc \in RaiseSteps /\ wpc' # wpc) => ~stopping ]_vars

\* C19: a start or schedule-next write that finds the worker not blocked in
\* qemu_cond_wait changes nothing of the device, and the raises never exceed
\* the wake-ups that register writes gave (by more than the one raise that
\* follows a teardown signal received in the armed-wait).
C19_NoMemory ==
    /\ [](credit >= IF td_pos = "wdd_waiting" THEN -1 ELSE 0)
    /\ [][ (writes' # writes /\ wpc \notin { "wdd_waiting", "waiting" })
            => /\ UNCHANGED << devVars, pciVars, workerVars, mainVars, credit >>
               /\ lost_writes' = lost_writes + 1 ]_vars

\* of two writes one woke the worker and the other found it not waiting and
\* was lost; the worker has raised once since and is blocked in its
\* post-raise wait, with nothing left to wake it
C19_Witness ==
    /\ writes = 2 /\ lost_writes = 1 /\ credit = 0 /\ raises_since_write = 1
    /\ wpc = "waiting" /\ td_pos = "none"

\* C20: the read callback reads from, deregisters and closes the connection
\* whose readiness triggered it.
C20_ReadsReadyConnection ==
    [][ (mpc = "reading" /\ mpc' # mpc) => conn_fd = m_fd ]_vars

====
